---- MODULE Spec2Model ----
(***************************************************************************)
(* Merge-upsert of a delta batch into a Glue catalog table                 *)
(* (awswrangler/s3/_merge_upsert_table.py).                                *)
(*                                                                         *)
(* A data frame is a record [columns, rows, index]: columns is the ordered *)
(* list of column names, rows the ordered list of rows (a row maps each    *)
(* column name to its value) and index the row labels (a tuple per row;    *)
(* the positional RangeIndex labels row i with <<i>>).                     *)
(***************************************************************************)
EXTENDS Integers, Sequences, FiniteSets, TLC

\* ------------------------------------------------------------- bounds ----
MaxExistingRows == 2   \* one merge: rows of the existing table
MaxDeltaRows == 2      \* one merge: rows of the delta batch
MaxSeqRows == 2        \* successive calls: rows of a delta batch and of the first table
MaxConcRows == 1       \* two callers: rows of a delta batch and of the first table

\* the values of the column "id": in one merge, in successive calls, with two callers
MergeKeys == {1, 2, 3}
SeqKeys == {1, 2}
ConcKeys == {1, 2}
\* the values of every other column
Vals == {1, 2}
\* the missing value pandas fills in for a column a frame does not have
NaN == 0

\* column layouts of the frames given as inputs
Layouts == { <<"id", "v">>, <<"v", "id">>, <<"id">>, <<"v">> }
\* column layouts of the table as first registered
TableLayouts == { <<"id", "v">>, <<"id">> }
PrimaryKeys == { <<"id">>, <<"id", "v">> }

\* the storage locations; the catalog registers the table at TableLocation
TableLocation == "s3://bucket/table"
Paths == { TableLocation, "s3://bucket/other" }
NoPath == "unresolved"

\* -------------------------------------------------------- data frames ----
Range(s) == { s[i] : i \in 1..Len(s) }

RangeIndex(n) == [i \in 1..n |-> <<i>>]

DataFrame(cols, rs) == [columns |-> cols, rows |-> rs, index |-> RangeIndex(Len(rs))]

RowsOver(cols, keys) == { r \in [Range(cols) -> keys \cup Vals] : \A c \in Range(cols) : r[c] \in (IF c = "id" THEN keys ELSE Vals) }

SeqsUpTo(S, n) == UNION { [1..k -> S] : k \in 0..n }

FramesOver(layouts, keys, n) == { DataFrame(cr[1], cr[2]) : cr \in UNION { {cols} \X SeqsUpTo(RowsOver(cols, keys), n) : cols \in layouts } }

EmptyFrame == DataFrame(<<>>, <<>>)

\* the inputs of one merge, of successive calls and of two concurrent callers
MergeTables == FramesOver(TableLayouts, MergeKeys, MaxExistingRows)
MergeDeltas == FramesOver(Layouts, MergeKeys, MaxDeltaRows)
SeqTables == FramesOver(TableLayouts, SeqKeys, MaxSeqRows)
SeqDeltas == FramesOver(Layouts, SeqKeys, MaxSeqRows)
ConcTables == FramesOver({<<"id", "v">>}, ConcKeys, MaxConcRows)
ConcDeltas == FramesOver({<<"id", "v">>}, ConcKeys, MaxConcRows)

\* df.shape[1]
shape1(df) == Len(df.columns)

\* the cell of row i in column c; NaN when the frame has no such column
Cell(df, i, c) == IF c \in Range(df.columns) THEN df.rows[i][c] ELSE NaN

\* pandas.DataFrame(df, columns=cols): the frame re-indexed to the given columns
Reindexed(df, cols) == [columns |-> cols, rows |-> [i \in 1..Len(df.rows) |-> [c \in Range(cols) |-> Cell(df, i, c)]], index |-> df.index]

\* DataFrame.duplicated(): row i repeats an earlier row
duplicated(df) == [i \in 1..Len(df.rows) |-> \E j \in 1..(i - 1) : df.rows[j] = df.rows[i]]

\* sum() of a boolean series
RECURSIVE sum(_)
sum(bs) == IF bs = <<>> THEN 0 ELSE (IF bs[Len(bs)] THEN 1 ELSE 0) + sum(SubSeq(bs, 1, Len(bs) - 1))

\* the names of a that also occur in b, in a's order (Index.intersection)
RECURSIVE intersection(_, _)
intersection(a, b) == IF a = <<>> THEN <<>> ELSE (IF a[1] \in Range(b) THEN <<a[1]>> ELSE <<>>) \o intersection(Tail(a), b)

\* the names of s that are not in the set S, in s's order
RECURSIVE Without(_, _)
Without(s, S) == IF s = <<>> THEN <<>> ELSE (IF s[1] \in S THEN <<>> ELSE <<s[1]>>) \o Without(Tail(s), S)

\* DataFrame.set_index(keys, drop): label each row with its tuple of key values
set_index(df, keys, drop) ==
    LET cols == IF drop THEN Without(df.columns, Range(keys)) ELSE df.columns
    IN  [columns |-> cols,
         rows |-> [i \in 1..Len(df.rows) |-> [c \in Range(cols) |-> df.rows[i][c]]],
         index |-> [i \in 1..Len(df.rows) |-> [k \in 1..Len(keys) |-> Cell(df, i, keys[k])]]]

\* verify_integrity=True: set_index raises unless the new labels are distinct
IndexIsUnique(df) == \A i, j \in 1..Len(df.index) : df.index[i] = df.index[j] => i = j

\* Index.isin(other): per label, whether it occurs among the other labels
isin(idx, other) == [i \in 1..Len(idx) |-> idx[i] \in Range(other)]

\* the positions of a boolean series that hold TRUE, in order
RECURSIVE Positions(_, _)
Positions(mask, i) == IF i > Len(mask) THEN <<>> ELSE (IF mask[i] THEN <<i>> ELSE <<>>) \o Positions(mask, i + 1)

\* df[mask]: the rows at which the mask holds
BooleanMask(df, mask) ==
    LET pos == Positions(mask, 1)
    IN  [columns |-> df.columns,
         rows |-> [n \in 1..Len(pos) |-> df.rows[pos[n]]],
         index |-> [n \in 1..Len(pos) |-> df.index[pos[n]]]]

Negated(mask) == [i \in 1..Len(mask) |-> ~mask[i]]

\* pandas.concat([a, b]): rows of a then rows of b over the union of the columns
concat(a, b) ==
    LET cols == a.columns \o Without(b.columns, Range(a.columns))
        widen(df) == [i \in 1..Len(df.rows) |-> [c \in Range(cols) |-> Cell(df, i, c)]]
    IN  [columns |-> cols, rows |-> widen(a) \o widen(b), index |-> a.index \o b.index]

\* DataFrame.reset_index(drop=True): back to positional labels
reset_index(df) == [df EXCEPT !.index = RangeIndex(Len(df.rows))]

\* ------------------------------------------------------ collaborators ----
\* wr.catalog.does_table_exist(database, table)
does_table_exist(cat) == cat.exists

\* wr.catalog.get_table_location(database, table)
get_table_location(cat) == cat.location

\* wr.s3.read_parquet_table(database, table): the full table, positional labels
read_parquet_table(cat, store) == DataFrame(store[cat.location].columns, store[cat.location].rows)

\* wr.s3.to_parquet(df, path, dataset=True, mode): the contents of the storage
\* afterwards; "overwrite" replaces what the path held, anything else adds to it
to_parquet(store, df, p, mode) ==
    [store EXCEPT ![p] = IF mode = "overwrite" \/ store[p].columns = <<>>
                         THEN [columns |-> df.columns, rows |-> df.rows]
                         ELSE [columns |-> store[p].columns, rows |-> store[p].rows \o df.rows]]

\* ----------------------------------------- _is_data_quality_sufficient ----
DuplicatesMessage(df, primary_key, msg) == IF sum(duplicated(Reindexed(df, primary_key))) # 0 THEN <<msg>> ELSE <<>>

\* variant: only the number of columns is compared
ColumnsMismatch_shape_only(existing, delta) == shape1(existing) # shape1(delta)

ColumnsMismatch(existing, delta) == shape1(existing) # shape1(delta) \/ Len(intersection(existing.columns, delta.columns)) # shape1(existing)

error_messages(existing, delta, primary_key) ==
    DuplicatesMessage(existing, primary_key, "Data inside the existing table has duplicates.")
    \o DuplicatesMessage(delta, primary_key, "Data inside the delta dataframe has duplicates.")
    \o (IF ColumnsMismatch(existing, delta) THEN <<"Column names or number of columns mismatch!">> ELSE <<>>)

\* variant: the recorded violations do not count
_is_data_quality_sufficient_ignored(existing, delta, primary_key) == Len(error_messages(existing, delta, primary_key)) >= 0

_is_data_quality_sufficient(existing, delta, primary_key) == Len(error_messages(existing, delta, primary_key)) = 0

\* ---------------------------------------------- _update_existing_table ----
\* set_index(keys=primary_key, drop=False, verify_integrity=True) raises on a
\* key column the frame lacks and on repeated labels
set_index_raises(df, primary_key) == ~(Range(primary_key) \subseteq Range(df.columns)) \/ ~IndexIsUnique(set_index(df, primary_key, FALSE))

\* variant: set_index(drop=True) takes the key columns out of the frame
IndexedFrame_drop(df, primary_key) == set_index(df, primary_key, TRUE)

IndexedFrame(df, primary_key) == set_index(df, primary_key, FALSE)

\* existing_df[~existing_df.index.isin(delta_df.index)]
\* variants: the mask is not negated; no mask at all
KeptRows_overridden(existing, delta) == BooleanMask(existing, isin(existing.index, delta.index))

KeptRows_all(existing, delta) == existing

KeptRows(existing, delta) == BooleanMask(existing, Negated(isin(existing.index, delta.index)))

\* variant: the delta batch is appended to the whole existing table
MergeUpsert_append(existing, delta, primary_key) ==
    LET e == IndexedFrame(existing, primary_key)
        d == IndexedFrame(delta, primary_key)
    IN  reset_index(concat(e, d))

MergeUpsert(existing, delta, primary_key) ==
    LET e == IndexedFrame(existing, primary_key)
        d == IndexedFrame(delta, primary_key)
    IN  reset_index(concat(KeptRows(e, d), d))

\* line 30: mode; variant: the writer adds to what the location holds
WriteMode_append == "append"

WriteMode == "overwrite"

\* line 60: the branch taken on the catalog's answer
\* (variant: the branches swapped)
ExistsBranch_inverted(answer) == IF answer THEN "CHECKING_EXISTENCE" ELSE "FOUND"

ExistsBranch(answer) == IF answer THEN "FOUND" ELSE "CHECKING_EXISTENCE"

\* -------------------------------------------------------------- state ----
VARIABLES
    catalog,       \* the Glue catalog entry of (database, table): [exists, location]
    storage,       \* per storage location, the table the parquet files hold
    primary_key,   \* the primary key every caller passes
    procs,         \* the callers of merge_upsert_table
    pc,            \* per caller, the stage of its invocation
    delta_df,      \* per caller, the delta batch it passed
    existing_df,   \* per caller, the table as it read it
    merged_df,     \* per caller, the merged frame it built
    path,          \* per caller, the location it resolved
    answers,       \* per caller, the catalog's answers to its existence queries
    calls,         \* per caller, the collaborators it called, in order
    written,       \* per caller, its calls of the writer: [path, mode, df]
    log,           \* per caller, the diagnostics it logged: [level, msg]
    reapplied,     \* per caller, whether this invocation repeats the previous one
    first_result   \* per caller, the table the previous invocation left

vars == <<catalog, storage, primary_key, procs, pc, delta_df, existing_df, merged_df, path, answers, calls, written, log, reapplied, first_result>>

locals == <<delta_df, existing_df, merged_df, path, answers, calls, written, log, reapplied, first_result>>

Terminal == { "NOT_FOUND", "UNKNOWN", "FAIL", "SUCCESS", "RAISED" }

StoredTable(df) == [columns |-> df.columns, rows |-> df.rows]

InitStorage(t) == [p \in Paths |-> IF p = TableLocation THEN StoredTable(t) ELSE StoredTable(EmptyFrame)]

InitLocals(P) ==
    /\ pc = [p \in P |-> "IDLE"]
    /\ delta_df = [p \in P |-> EmptyFrame]
    /\ existing_df = [p \in P |-> EmptyFrame]
    /\ merged_df = [p \in P |-> EmptyFrame]
    /\ path = [p \in P |-> NoPath]
    /\ answers = [p \in P |-> <<>>]
    /\ calls = [p \in P |-> <<>>]
    /\ written = [p \in P |-> <<>>]
    /\ log = [p \in P |-> <<>>]
    /\ reapplied = [p \in P |-> FALSE]
    /\ first_result = [p \in P |-> StoredTable(EmptyFrame)]

\* one caller at a time; the table holds the key columns
Init ==
    /\ procs = {1}
    /\ primary_key = <<"id">>
    /\ \E t \in SeqTables : storage = InitStorage(t)
    /\ catalog \in [exists : BOOLEAN, location : {TableLocation}]
    /\ InitLocals({1})

\* one merge: the caller found the table (line 60) and has read it (line 62);
\* the table holds the key columns, the delta batch is any frame
InitMerge ==
    /\ procs = {1}
    /\ primary_key \in PrimaryKeys
    /\ catalog = [exists |-> TRUE, location |-> TableLocation]
    /\ \E t \in MergeTables :
          /\ Range(primary_key) \subseteq Range(t.columns)
          /\ storage = InitStorage(t)
          /\ existing_df = [p \in {1} |-> read_parquet_table(catalog, InitStorage(t))]
    /\ delta_df \in [{1} -> MergeDeltas]
    /\ pc = [p \in {1} |-> "GATING"]
    /\ merged_df = [p \in {1} |-> EmptyFrame]
    /\ path = [p \in {1} |-> NoPath]
    /\ answers = [p \in {1} |-> <<TRUE>>]
    /\ calls = [p \in {1} |-> <<"does_table_exist", "read_parquet_table">>]
    /\ written = [p \in {1} |-> <<>>]
    /\ log = [p \in {1} |-> <<>>]
    /\ reapplied = [p \in {1} |-> FALSE]
    /\ first_result = [p \in {1} |-> StoredTable(EmptyFrame)]

\* two callers against the same table
InitConc ==
    /\ procs = {1, 2}
    /\ primary_key = <<"id">>
    /\ \E t \in ConcTables : storage = InitStorage(t)
    /\ catalog = [exists |-> TRUE, location |-> TableLocation]
    /\ InitLocals({1, 2})

\* ------------------------------------------------- merge_upsert_table ----
\* a caller enters merge_upsert_table with the delta batch d
Enter(p, d) ==
    /\ pc[p] = "IDLE"
    /\ pc' = [pc EXCEPT ![p] = "CHECKING_EXISTENCE"]
    /\ delta_df' = [delta_df EXCEPT ![p] = d]
    /\ UNCHANGED <<catalog, storage, primary_key, procs, existing_df, merged_df, path, answers, calls, written, log, reapplied, first_result>>

Invoke(p) == \E d \in SeqDeltas : Enter(p, d)

InvokeConc(p) == \E d \in ConcDeltas : Enter(p, d)

\* line 60: if wr.catalog.does_table_exist(...)
CheckExists(p) ==
    /\ pc[p] = "CHECKING_EXISTENCE"
    /\ answers[p] = <<>>
    /\ answers' = [answers EXCEPT ![p] = <<does_table_exist(catalog)>>]
    /\ calls' = [calls EXCEPT ![p] = @ \o <<"does_table_exist">>]
    /\ pc' = [pc EXCEPT ![p] = ExistsBranch(does_table_exist(catalog))]
    /\ UNCHANGED <<catalog, storage, primary_key, procs, delta_df, existing_df, merged_df, path, written, log, reapplied, first_result>>

\* lines 69-72: elif wr.catalog.does_table_exist(...) is False ... else ...
RecheckExists(p) ==
    /\ pc[p] = "CHECKING_EXISTENCE"
    /\ answers[p] # <<>>
    /\ answers' = [answers EXCEPT ![p] = @ \o <<does_table_exist(catalog)>>]
    /\ calls' = [calls EXCEPT ![p] = @ \o <<"does_table_exist">>]
    /\ IF does_table_exist(catalog) = FALSE
       THEN /\ log' = [log EXCEPT ![p] = @ \o <<[level |-> "ERROR", msg |-> "does not exist"]>>]
            /\ pc' = [pc EXCEPT ![p] = "NOT_FOUND"]
       ELSE /\ log' = [log EXCEPT ![p] = @ \o <<[level |-> "ERROR", msg |-> "Reached a unknown logical state"]>>]
            /\ pc' = [pc EXCEPT ![p] = "UNKNOWN"]
    /\ UNCHANGED <<catalog, storage, primary_key, procs, delta_df, existing_df, merged_df, path, written, reapplied, first_result>>

\* line 62: existing_df = wr.s3.read_parquet_table(...); raises on a table that is gone
ReadExisting(p) ==
    /\ pc[p] = "FOUND"
    /\ calls' = [calls EXCEPT ![p] = @ \o <<"read_parquet_table">>]
    /\ IF catalog.exists
       THEN /\ existing_df' = [existing_df EXCEPT ![p] = read_parquet_table(catalog, storage)]
            /\ pc' = [pc EXCEPT ![p] = "GATING"]
       ELSE /\ pc' = [pc EXCEPT ![p] = "RAISED"]
            /\ UNCHANGED existing_df
    /\ UNCHANGED <<catalog, storage, primary_key, procs, delta_df, merged_df, path, answers, written, log, reapplied, first_result>>

\* line 64: if _is_data_quality_sufficient(...) is True
QualityGate(p) ==
    /\ pc[p] = "GATING"
    /\ pc' = [pc EXCEPT ![p] = IF _is_data_quality_sufficient(existing_df[p], delta_df[p], primary_key) = TRUE THEN "PASS" ELSE "FAIL"]
    /\ UNCHANGED <<catalog, storage, primary_key, procs, locals>>

\* lines 66-68: the call of _update_existing_table
EnterUpdate(p) ==
    /\ pc[p] = "PASS"
    /\ pc' = [pc EXCEPT ![p] = "MERGING"]
    /\ UNCHANGED <<catalog, storage, primary_key, procs, locals>>

\* lines 21-26: index both frames, merge, drop the index
Merge(p) ==
    /\ pc[p] = "MERGING"
    /\ IF set_index_raises(existing_df[p], primary_key) \/ set_index_raises(delta_df[p], primary_key)
       THEN /\ pc' = [pc EXCEPT ![p] = "RAISED"]
            /\ UNCHANGED merged_df
       ELSE /\ merged_df' = [merged_df EXCEPT ![p] = MergeUpsert(existing_df[p], delta_df[p], primary_key)]
            /\ pc' = [pc EXCEPT ![p] = "PUBLISHING"]
    /\ UNCHANGED <<catalog, storage, primary_key, procs, delta_df, existing_df, path, answers, calls, written, log, reapplied, first_result>>

\* line 28: path = wr.catalog.get_table_location(...); raises on a table that is gone
GetLocation(p) ==
    /\ pc[p] = "PUBLISHING"
    /\ path[p] = NoPath
    /\ calls' = [calls EXCEPT ![p] = @ \o <<"get_table_location">>]
    /\ IF catalog.exists
       THEN /\ path' = [path EXCEPT ![p] = get_table_location(catalog)]
            /\ UNCHANGED pc
       ELSE /\ pc' = [pc EXCEPT ![p] = "RAISED"]
            /\ UNCHANGED path
    /\ UNCHANGED <<catalog, storage, primary_key, procs, delta_df, existing_df, merged_df, answers, written, log, reapplied, first_result>>

\* line 30: df=merged_df
\* (variant: the merge is rebuilt from the table as it is when written)
WrittenFrame_fresh(p) == MergeUpsert(read_parquet_table(catalog, storage), delta_df[p], primary_key)

WrittenFrame(p) == merged_df[p]

\* lines 30-31: response = wr.s3.to_parquet(..., mode="overwrite"); log the response
Publish(p) ==
    /\ pc[p] = "PUBLISHING"
    /\ path[p] # NoPath
    /\ calls' = [calls EXCEPT ![p] = @ \o <<"to_parquet">>]
    /\ written' = [written EXCEPT ![p] = @ \o <<[path |-> path[p], mode |-> WriteMode, df |-> WrittenFrame(p)]>>]
    /\ storage' = to_parquet(storage, WrittenFrame(p), path[p], WriteMode)
    /\ catalog' = [exists |-> TRUE, location |-> path[p]]
    /\ log' = [log EXCEPT ![p] = @ \o <<[level |-> "INFO", msg |-> "Successfully Upserted"]>>]
    /\ pc' = [pc EXCEPT ![p] = "SUCCESS"]
    /\ UNCHANGED <<primary_key, procs, delta_df, existing_df, merged_df, path, answers, reapplied, first_result>>

\* merge_upsert_table returns (or its exception reaches the caller)
Return(p) ==
    /\ pc[p] \in Terminal
    /\ pc' = [pc EXCEPT ![p] = "IDLE"]
    /\ delta_df' = [delta_df EXCEPT ![p] = EmptyFrame]
    /\ existing_df' = [existing_df EXCEPT ![p] = EmptyFrame]
    /\ merged_df' = [merged_df EXCEPT ![p] = EmptyFrame]
    /\ path' = [path EXCEPT ![p] = NoPath]
    /\ answers' = [answers EXCEPT ![p] = <<>>]
    /\ calls' = [calls EXCEPT ![p] = <<>>]
    /\ written' = [written EXCEPT ![p] = <<>>]
    /\ log' = [log EXCEPT ![p] = <<>>]
    /\ reapplied' = [reapplied EXCEPT ![p] = FALSE]
    /\ first_result' = [first_result EXCEPT ![p] = StoredTable(EmptyFrame)]
    /\ UNCHANGED <<catalog, storage, primary_key, procs>>

\* after a successful upsert the caller passes the same delta batch again
ReApply(p) ==
    /\ pc[p] = "SUCCESS"
    /\ pc' = [pc EXCEPT ![p] = "CHECKING_EXISTENCE"]
    /\ existing_df' = [existing_df EXCEPT ![p] = EmptyFrame]
    /\ merged_df' = [merged_df EXCEPT ![p] = EmptyFrame]
    /\ path' = [path EXCEPT ![p] = NoPath]
    /\ answers' = [answers EXCEPT ![p] = <<>>]
    /\ calls' = [calls EXCEPT ![p] = <<>>]
    /\ written' = [written EXCEPT ![p] = <<>>]
    /\ log' = [log EXCEPT ![p] = <<>>]
    /\ reapplied' = [reapplied EXCEPT ![p] = TRUE]
    /\ first_result' = [first_result EXCEPT ![p] = storage[catalog.location]]
    /\ UNCHANGED <<catalog, storage, primary_key, procs, delta_df>>

\* someone else registers or drops the table in the catalog
CatalogChange ==
    /\ catalog' = [catalog EXCEPT !.exists = ~@]
    /\ UNCHANGED <<storage, primary_key, procs, pc, locals>>

Next ==
    \/ \E p \in procs : Invoke(p)
    \/ \E p \in procs : CheckExists(p)
    \/ \E p \in procs : RecheckExists(p)
    \/ \E p \in procs : ReadExisting(p)
    \/ \E p \in procs : QualityGate(p)
    \/ \E p \in procs : EnterUpdate(p)
    \/ \E p \in procs : Merge(p)
    \/ \E p \in procs : GetLocation(p)
    \/ \E p \in procs : Publish(p)
    \/ \E p \in procs : Return(p)
    \/ \E p \in procs : ReApply(p)
    \/ CatalogChange

Spec == Init /\ [][Next]_vars

NextConc ==
    \/ \E p \in procs : InvokeConc(p)
    \/ \E p \in procs : CheckExists(p)
    \/ \E p \in procs : RecheckExists(p)
    \/ \E p \in procs : ReadExisting(p)
    \/ \E p \in procs : QualityGate(p)
    \/ \E p \in procs : EnterUpdate(p)
    \/ \E p \in procs : Merge(p)
    \/ \E p \in procs : GetLocation(p)
    \/ \E p \in procs : Publish(p)
    \/ CatalogChange

SpecConc == InitConc /\ [][NextConc]_vars

NextMerge ==
    \/ \E p \in procs : QualityGate(p)
    \/ \E p \in procs : EnterUpdate(p)
    \/ \E p \in procs : Merge(p)

SpecMerge == InitMerge /\ [][NextMerge]_vars

TypeOK == pc \in [procs -> Terminal \cup {"IDLE", "CHECKING_EXISTENCE", "FOUND", "GATING", "PASS", "MERGING", "PUBLISHING"}]

\* ============================================================ properties ==
\* the primary-key tuple of a row; NaN stands for a key column the row lacks
KeyTuple(r, key) == [k \in 1..Len(key) |-> IF key[k] \in DOMAIN r THEN r[key[k]] ELSE NaN]

KeySet(t, key) == { KeyTuple(t.rows[i], key) : i \in 1..Len(t.rows) }

RowSet(t) == { t.rows[i] : i \in 1..Len(t.rows) }

RowsWithKey(t, key, k) == { i \in 1..Len(t.rows) : KeyTuple(t.rows[i], key) = k }

NoDuplicateKeys(t, key) == \A i, j \in 1..Len(t.rows) : KeyTuple(t.rows[i], key) = KeyTuple(t.rows[j], key) => i = j

SameColumnSet(a, b) == Range(a.columns) = Range(b.columns)

GateConditions(existing, delta, key) == SameColumnSet(existing, delta) /\ NoDuplicateKeys(existing, key) /\ NoDuplicateKeys(delta, key)

Durable == storage[TableLocation]

\* the steps of caller p itself (the catalog may change under it at any time)
StepOf(p) == pc'[p] # pc[p] \/ calls'[p] # calls[p]

\* C1 (key coverage): once the gate has passed and the merge is built, every
\* primary-key tuple of the existing table or of the delta batch labels exactly
\* one merged row; that row is the delta's row when the delta has the key and
\* the existing table's row otherwise; no merged row has a key of neither input.
C1_KeyCoverage ==
    \A p \in procs : pc[p] = "PUBLISHING" =>
        LET e == existing_df[p]
            d == delta_df[p]
            m == merged_df[p]
        IN  /\ \A k \in KeySet(e, primary_key) \cup KeySet(d, primary_key) :
                  /\ Cardinality(RowsWithKey(m, primary_key, k)) = 1
                  /\ \A i \in RowsWithKey(m, primary_key, k) :
                        IF k \in KeySet(d, primary_key)
                        THEN \E j \in RowsWithKey(d, primary_key, k) : m.rows[i] = d.rows[j]
                        ELSE \E j \in RowsWithKey(e, primary_key, k) : m.rows[i] = e.rows[j]
            /\ KeySet(m, primary_key) \subseteq KeySet(e, primary_key) \cup KeySet(d, primary_key)

\* a merge that keeps one existing row, replaces another by a different delta
\* row and inserts a row of a new key
C1_Witness ==
    \E p \in procs :
        /\ pc[p] = "PUBLISHING"
        /\ KeySet(existing_df[p], primary_key) \ KeySet(delta_df[p], primary_key) # {}
        /\ KeySet(delta_df[p], primary_key) \ KeySet(existing_df[p], primary_key) # {}
        /\ \E i \in 1..Len(existing_df[p].rows), j \in 1..Len(delta_df[p].rows) :
              /\ KeyTuple(existing_df[p].rows[i], primary_key) = KeyTuple(delta_df[p].rows[j], primary_key)
              /\ existing_df[p].rows[i] # delta_df[p].rows[j]

\* C2 (quality gate): the gate lets the call through exactly when the existing
\* table has no repeated primary-key tuple, the delta batch has none, and both
\* have the same set of column names, whatever the order of the columns.
C2_GateIff ==
    \A p \in procs :
        /\ pc[p] = "PASS" => GateConditions(existing_df[p], delta_df[p], primary_key)
        /\ pc[p] = "FAIL" => ~GateConditions(existing_df[p], delta_df[p], primary_key)

\* the gate passes a delta batch whose columns come in another order
C2_Witness ==
    \E p \in procs :
        /\ pc[p] = "PASS"
        /\ delta_df[p].columns # existing_df[p].columns
        /\ Len(delta_df[p].rows) = MaxDeltaRows
        /\ Len(existing_df[p].rows) = MaxExistingRows

\* C3 (gate failure is a no-op): when the table exists and the gate's conditions
\* fail, the call ends in FAIL (it does not raise), has called neither
\* get_table_location nor to_parquet, and none of its steps changed the storage
\* or the catalog entry.
C3_GateFailureNoOp ==
    /\ [](\A p \in procs : pc[p] = "FAIL" =>
            /\ written[p] = <<>>
            /\ path[p] = NoPath
            /\ "to_parquet" \notin Range(calls[p])
            /\ "get_table_location" \notin Range(calls[p]))
    /\ [][\A p \in procs :
            /\ (pc[p] = "GATING" /\ StepOf(p) /\ ~GateConditions(existing_df[p], delta_df[p], primary_key)) => pc'[p] = "FAIL"
            /\ (StepOf(p) /\ pc'[p] \in {"FOUND", "GATING", "FAIL"}) => (storage' = storage /\ catalog' = catalog)]_vars

\* a call stopped by repeated keys in the stored table
C3_Witness ==
    \E p \in procs :
        /\ pc[p] = "FAIL"
        /\ ~NoDuplicateKeys(existing_df[p], primary_key)
        /\ NoDuplicateKeys(delta_df[p], primary_key)
        /\ SameColumnSet(existing_df[p], delta_df[p])
        /\ Len(delta_df[p].rows) > 0
        /\ Durable.rows = existing_df[p].rows

\* C4 (table not found): when the catalog answers the first existence query
\* with "absent", the call reads nothing, writes nothing, resolves no location,
\* logs an error-level diagnostic before it returns, and none of its steps
\* changes the storage or the catalog entry.
C4_NotFoundNoOp ==
    /\ [](\A p \in procs : (answers[p] # <<>> /\ answers[p][1] = FALSE) =>
            /\ Range(calls[p]) = {"does_table_exist"}
            /\ written[p] = <<>>
            /\ existing_df[p] = EmptyFrame
            /\ pc[p] \in {"CHECKING_EXISTENCE", "NOT_FOUND", "UNKNOWN"}
            /\ pc[p] \in Terminal => \E i \in 1..Len(log[p]) : log[p][i].level = "ERROR")
    /\ [][\A p \in procs : (StepOf(p) /\ answers'[p] # <<>> /\ answers'[p][1] = FALSE) => (storage' = storage /\ catalog' = catalog)]_vars

\* a call that found the table absent while the storage still holds rows
C4_Witness ==
    \E p \in procs :
        /\ pc[p] = "NOT_FOUND"
        /\ answers[p] = <<FALSE, FALSE>>
        /\ Len(delta_df[p].rows) > 0
        /\ Len(Durable.rows) > 0

\* C5 (overwrite publish): a call that succeeds has called the writer exactly
\* once, in overwrite mode, at the location the catalog holds for the table,
\* and the stored table then holds exactly the kept existing rows and the rows
\* of the delta batch, each once: an existing row survives only if the delta
\* batch has no row of its key.
C5_OverwritePublish ==
    \A p \in procs : pc[p] = "SUCCESS" =>
        LET kept == { r \in RowSet(existing_df[p]) : KeyTuple(r, primary_key) \notin KeySet(delta_df[p], primary_key) }
        IN  /\ Len(written[p]) = 1
            /\ written[p][1].mode = "overwrite"
            /\ written[p][1].path = TableLocation
            /\ catalog.location = TableLocation
            /\ RowSet(Durable) = kept \cup RowSet(delta_df[p])
            /\ Len(Durable.rows) = Cardinality(kept) + Len(delta_df[p].rows)
            /\ RowSet(Durable) = RowSet(merged_df[p])

\* a successful call whose delta batch replaced one stored row and left another
C5_Witness ==
    \E p \in procs :
        /\ pc[p] = "SUCCESS"
        /\ RowSet(existing_df[p]) \ RowSet(Durable) # {}
        /\ RowSet(existing_df[p]) \cap RowSet(Durable) # {}
        /\ RowSet(delta_df[p]) # {}

\* C6 (re-applying a delta): a call that repeats the previous successful call
\* with the same delta batch is not stopped by the gate, and when it succeeds
\* the stored table holds the same rows and columns as after the first call.
C6_ReapplyIdempotent ==
    \A p \in procs : reapplied[p] =>
        /\ pc[p] # "FAIL"
        /\ pc[p] = "SUCCESS" => (RowSet(Durable) = RowSet(first_result[p]) /\ Range(Durable.columns) = Range(first_result[p].columns))

\* a repeated call that succeeded on a table holding delta rows and older rows
C6_Witness ==
    \E p \in procs :
        /\ reapplied[p]
        /\ pc[p] = "SUCCESS"
        /\ RowSet(delta_df[p]) # {}
        /\ RowSet(Durable) \ RowSet(delta_df[p]) # {}
        /\ delta_df[p].columns # Durable.columns

\* C7 (column invariance): once the gate has passed and the merge is built, the
\* merged frame has the existing table's set of column names, the primary-key
\* columns among them, and every merged row has a value in each of them.
C7_ColumnInvariance ==
    \A p \in procs : pc[p] = "PUBLISHING" =>
        /\ Range(merged_df[p].columns) = Range(existing_df[p].columns)
        /\ Len(merged_df[p].columns) = Len(existing_df[p].columns)
        /\ Range(primary_key) \subseteq Range(merged_df[p].columns)
        /\ \A i \in 1..Len(merged_df[p].rows) : DOMAIN merged_df[p].rows[i] = Range(existing_df[p].columns)

\* a merge of a delta batch whose columns come in another order
C7_Witness ==
    \E p \in procs :
        /\ pc[p] = "PUBLISHING"
        /\ delta_df[p].columns # existing_df[p].columns
        /\ Len(merged_df[p].rows) > Len(existing_df[p].rows)
        /\ Len(existing_df[p].rows) > 0

\* C8 (orchestrator state machine, as claimed): a call that does not raise ends
\* in NOT_FOUND, FAIL or SUCCESS and in no other state, and it ends in
\* NOT_FOUND exactly when the catalog answered "absent".
C8_ThreeTerminals ==
    \A p \in procs : (pc[p] \in Terminal /\ pc[p] # "RAISED") =>
        /\ pc[p] \in {"NOT_FOUND", "FAIL", "SUCCESS"}
        /\ pc[p] = "NOT_FOUND" <=> answers[p][1] = FALSE

\* C8 (what the code does): the stages follow the claimed order, with a fourth
\* end, UNKNOWN, taken when the first existence query answers "absent" and the
\* second one "present".
C8_StagesWithUnknown ==
    /\ [](\A p \in procs : (pc[p] \in Terminal /\ pc[p] # "RAISED") =>
            /\ pc[p] = "NOT_FOUND" <=> answers[p] = <<FALSE, FALSE>>
            /\ pc[p] = "UNKNOWN" <=> answers[p] = <<FALSE, TRUE>>
            /\ pc[p] \in {"FAIL", "SUCCESS"} <=> answers[p] = <<TRUE>>)
    /\ [][\A p \in procs : pc'[p] # pc[p] =>
            <<pc[p], pc'[p]>> \in
                { <<"IDLE", "CHECKING_EXISTENCE">>, <<"CHECKING_EXISTENCE", "NOT_FOUND">>,
                  <<"CHECKING_EXISTENCE", "UNKNOWN">>, <<"CHECKING_EXISTENCE", "FOUND">>,
                  <<"FOUND", "GATING">>, <<"GATING", "FAIL">>, <<"GATING", "PASS">>,
                  <<"PASS", "MERGING">>, <<"MERGING", "PUBLISHING">>, <<"PUBLISHING", "SUCCESS">>,
                  <<"FOUND", "RAISED">>, <<"PUBLISHING", "RAISED">>, <<"SUCCESS", "CHECKING_EXISTENCE">> }
                \cup (Terminal \X {"IDLE"})]_vars

C8_Witness == \E p \in procs : pc[p] = "UNKNOWN" /\ answers[p] = <<FALSE, TRUE>>

\* C9 (lost update): when two callers have both succeeded with delta batches of
\* disjoint keys, each changing the table, and both read the same table before
\* either wrote, the stored table lacks a row of one of the two delta batches.
BothReadBeforeEitherWrote ==
    /\ procs = {1, 2}
    /\ pc[1] = "SUCCESS" /\ pc[2] = "SUCCESS"
    /\ existing_df[1] = existing_df[2]
    /\ KeySet(delta_df[1], primary_key) \cap KeySet(delta_df[2], primary_key) = {}
    /\ \A p \in procs : RowSet(delta_df[p]) \ RowSet(existing_df[p]) # {}

C9_LostUpdate == BothReadBeforeEitherWrote => \E p \in procs : RowSet(delta_df[p]) \ RowSet(Durable) # {}

\* both callers succeeded, none was held back, and the rows of caller 1 are gone
C9_Witness ==
    /\ BothReadBeforeEitherWrote
    /\ RowSet(delta_df[1]) \cap RowSet(Durable) = {}
    /\ RowSet(delta_df[2]) \subseteq RowSet(Durable)
    /\ Len(written[1]) = 1 /\ Len(written[2]) = 1

\* C10 (primary-key uniqueness): with one caller at a time, no step makes a
\* stored table without repeated keys into one with repeated keys, and no step
\* changes a stored table that has repeated keys.
C10_UniquenessPreserved ==
    [][/\ NoDuplicateKeys(Durable, primary_key) => NoDuplicateKeys(storage'[TableLocation], primary_key)
       /\ ~NoDuplicateKeys(Durable, primary_key) => storage' = storage]_vars

\* a successful call has grown a table without repeated keys
C10_Witness ==
    \E p \in procs :
        /\ pc[p] = "SUCCESS"
        /\ NoDuplicateKeys(Durable, primary_key)
        /\ Len(Durable.rows) > Len(existing_df[p].rows)
        /\ Len(existing_df[p].rows) > 0
====
